---------------------------- MODULE Spec2Model ----------------------------
(***************************************************************************)
(* Model of senator-scraper.py: the /trades endpoint (get_trades), the     *)
(* Playwright row extractor (fetch_page_content) and the text helpers      *)
(* (clean_text, parse_date, parse_senator_info, is_valid_asset).           *)
(*                                                                         *)
(* A Python str is a sequence of one-character strings, so that strip,     *)
(* split, replace, lower, "in" and strptime are computed character by      *)
(* character, as the interpreter computes them.                            *)
(***************************************************************************)
EXTENDS Integers, Sequences, FiniteSets, TLC

VARIABLES
    pc,             \* position of the request handler
    start_date,     \* get_trades: start_date (a str, or None)
    end_date,       \* get_trades: end_date (a str, or None)
    trade_type,     \* get_trades: trade_type
    include_stock,  \* get_trades: include_stock
    include_option, \* get_trades: include_option
    start_date_dt,  \* get_trades: start_date_dt
    end_date_dt,    \* get_trades: end_date_dt
    playwright,     \* the async_playwright() driver: "none", "running", "stopped"
    browser,        \* the launched chromium: "none", "open", "closed"
    page,           \* the DOM of the navigated page: a sequence of tables
    i,              \* loop index of the row loop that is running
    rows_data,      \* fetch_page_content: rows_data (the RawRows)
    content,        \* get_trades: content (the markup page.content() returned)
    trade_rows,     \* get_trades: trade_rows (BeautifulSoup rows)
    trades,         \* get_trades: trades
    exc,            \* the exception in flight, or NoExc
    response,       \* what reaches the caller
    date_str,       \* parse_date: argument of the latest call
    date_dt         \* parse_date: result of the latest call

vars == <<pc, start_date, end_date, trade_type, include_stock, include_option,
          start_date_dt, end_date_dt, playwright, browser, page, i, rows_data,
          content, trade_rows, trades, exc, response, date_str, date_dt>>

---------------------------------------------------------------------------
(* Python str primitives *)

\* Python's None where a str is expected (an Optional[str] parameter).
None == <<"None">>

Whitespace == {" ", "\n", "\t"}

UpperCase == <<"A", "B", "C", "D", "E", "F", "G", "H", "I", "J", "K", "L", "M",
               "N", "O", "P", "Q", "R", "S", "T", "U", "V", "W", "X", "Y", "Z">>

LowerCase == <<"a", "b", "c", "d", "e", "f", "g", "h", "i", "j", "k", "l", "m",
               "n", "o", "p", "q", "r", "s", "t", "u", "v", "w", "x", "y", "z">>

Digits == <<"0", "1", "2", "3", "4", "5", "6", "7", "8", "9">>

IsUpper(c) == \E k \in DOMAIN UpperCase : UpperCase[k] = c

IsDigit(c) == \E k \in DOMAIN Digits : Digits[k] = c

DigitVal(c) == (CHOOSE k \in DOMAIN Digits : Digits[k] = c) - 1

\* s[p] of a str, "" past its end
At(s, p) == IF p \in DOMAIN s THEN s[p] ELSE ""

LowerChar(c) ==
    IF IsUpper(c) THEN LowerCase[CHOOSE k \in DOMAIN UpperCase : UpperCase[k] = c]
    ELSE c

\* str.lower()
Lower(s) == [k \in DOMAIN s |-> LowerChar(s[k])]

RECURSIVE LStrip(_)
LStrip(s) == IF s # <<>> /\ Head(s) \in Whitespace THEN LStrip(Tail(s)) ELSE s

RECURSIVE RStrip(_)
RStrip(s) ==
    IF s # <<>> /\ s[Len(s)] \in Whitespace THEN RStrip(SubSeq(s, 1, Len(s) - 1))
    ELSE s

\* str.strip()
Strip(s) == RStrip(LStrip(s))

RECURSIVE SplitAcc(_, _, _)
SplitAcc(s, word, words) ==
    LET flushed == IF word = <<>> THEN words ELSE Append(words, word)
    IN  IF s = <<>> THEN flushed
        ELSE IF Head(s) \in Whitespace THEN SplitAcc(Tail(s), <<>>, flushed)
        ELSE SplitAcc(Tail(s), Append(word, Head(s)), words)

\* str.split() with no separator: the maximal runs of non-whitespace
Split(s) == SplitAcc(s, <<>>, <<>>)

RECURSIVE Join(_, _)
\* sep.join(words)
Join(sep, words) ==
    IF words = <<>> THEN <<>>
    ELSE IF Len(words) = 1 THEN words[1]
    ELSE words[1] \o sep \o Join(sep, Tail(words))

StartsWith(s, prefix) ==
    Len(s) >= Len(prefix) /\ SubSeq(s, 1, Len(prefix)) = prefix

RECURSIVE Replace(_, _, _)
\* s.replace(old, new), old not empty: leftmost non-overlapping occurrences
Replace(s, old, new) ==
    IF s = <<>> THEN <<>>
    ELSE IF StartsWith(s, old)
         THEN new \o Replace(SubSeq(s, Len(old) + 1, Len(s)), old, new)
    ELSE <<Head(s)>> \o Replace(Tail(s), old, new)

\* sub in s
Contains(s, sub) ==
    \E k \in 0..(Len(s) - Len(sub)) : SubSeq(s, k + 1, k + Len(sub)) = sub

\* clean_text, lines 22-25
clean_text(text) ==
    IF text = None \/ text = <<>> THEN <<>>
    ELSE Join(<<" ">>, Split(Strip(text)))

---------------------------------------------------------------------------
(* datetime: dates, strptime, strftime, timedelta *)

Date(y, m, d) == [y |-> y, m |-> m, d |-> d]

\* Optional[datetime]: None
NoDate == [y |-> 0, m |-> 0, d |-> 0]

\* strptime raised ValueError
ValueError == [y |-> -1, m |-> 0, d |-> 0]

IsLeap(y) == (y % 4 = 0 /\ y % 100 # 0) \/ y % 400 = 0

DaysInMonth(y, m) ==
    IF m = 2 THEN (IF IsLeap(y) THEN 29 ELSE 28)
    ELSE IF m \in {4, 6, 9, 11} THEN 30
    ELSE 31

\* what the datetime constructor accepts
ValidDate(y, m, d) ==
    /\ y \in 1..9999
    /\ m \in 1..12
    /\ d \in 1..DaysInMonth(y, m)

\* a < b on datetimes at midnight
DateLess(a, b) ==
    \/ a.y < b.y
    \/ a.y = b.y /\ a.m < b.m
    \/ a.y = b.y /\ a.m = b.m /\ a.d < b.d

PrevDay(dt) ==
    IF dt.d > 1 THEN Date(dt.y, dt.m, dt.d - 1)
    ELSE IF dt.m > 1 THEN Date(dt.y, dt.m - 1, DaysInMonth(dt.y, dt.m - 1))
    ELSE Date(dt.y - 1, 12, 31)

RECURSIVE MinusDays(_, _)
\* dt - timedelta(days=n)
MinusDays(dt, n) == IF n = 0 THEN dt ELSE MinusDays(PrevDay(dt), n - 1)

RECURSIVE ZeroPad(_, _)
\* the decimal digits of n, zero-padded to width
ZeroPad(n, width) ==
    IF width = 0 THEN <<>>
    ELSE ZeroPad(n \div 10, width - 1) \o <<Digits[(n % 10) + 1]>>

\* dt.strftime("%Y-%m-%d")
strftime(dt) == ZeroPad(dt.y, 4) \o <<"-">> \o ZeroPad(dt.m, 2) \o <<"-">> \o ZeroPad(dt.d, 2)

\* calendar.month_abbr, as %b matches it
MonthAbbr == << <<"J", "a", "n">>, <<"F", "e", "b">>, <<"M", "a", "r">>,
                <<"A", "p", "r">>, <<"M", "a", "y">>, <<"J", "u", "n">>,
                <<"J", "u", "l">>, <<"A", "u", "g">>, <<"S", "e", "p">>,
                <<"O", "c", "t">>, <<"N", "o", "v">>, <<"D", "e", "c">> >>

\* calendar.month_name, as %B matches it
MonthName == << <<"J", "a", "n", "u", "a", "r", "y">>,
                <<"F", "e", "b", "r", "u", "a", "r", "y">>,
                <<"M", "a", "r", "c", "h">>,
                <<"A", "p", "r", "i", "l">>,
                <<"M", "a", "y">>,
                <<"J", "u", "n", "e">>,
                <<"J", "u", "l", "y">>,
                <<"A", "u", "g", "u", "s", "t">>,
                <<"S", "e", "p", "t", "e", "m", "b", "e", "r">>,
                <<"O", "c", "t", "o", "b", "e", "r">>,
                <<"N", "o", "v", "e", "m", "b", "e", "r">>,
                <<"D", "e", "c", "e", "m", "b", "e", "r">> >>

\* the order in which the %B alternation tries the names: longest first
MonthNameOrder == <<9, 2, 11, 12, 1, 10, 8, 3, 4, 6, 7, 5>>

\* the two digits at p, as a number
Num2(s, p) == 10 * DigitVal(s[p]) + DigitVal(s[p + 1])

Num4(s, p) == 100 * Num2(s, p) + Num2(s, p + 2)

AllDigits(s, p, n) == \A k \in p..(p + n - 1) : IsDigit(At(s, k))

RECURSIVE WhitespaceRun(_, _)
\* the length of the whitespace run of s that starts at p
WhitespaceRun(s, p) ==
    IF At(s, p) \in Whitespace THEN 1 + WhitespaceRun(s, p + 1) ELSE 0

RECURSIVE NameAlts(_, _, _, _, _)
\* the alternatives of a month-name alternation at p, in the order tried
NameAlts(names, order, k, s, p) ==
    IF k > Len(order) THEN <<>>
    ELSE LET name == names[order[k]]
             hit  == Lower(SubSeq(s, p, p + Len(name) - 1)) = Lower(name)
         IN  (IF p + Len(name) - 1 <= Len(s) /\ hit
              THEN <<[len |-> Len(name), val |-> order[k]]>> ELSE <<>>)
             \o NameAlts(names, order, k + 1, s, p)

\* The ways directive dir of a strptime format can match s at position p, in
\* the priority order of the regular expression _strptime compiles it to:
\*   %d  3[0-1]|[1-2]\d|0[1-9]|[1-9]| [1-9]     %m  1[0-2]|0[1-9]|[1-9]
\*   %Y  \d\d\d\d     %b, %B  the month names, case-insensitive
\*   whitespace  \s+ (greedy)     any other character: itself
Alts(dir, s, p) ==
    CASE dir = "%d" ->
           (IF AllDigits(s, p, 2) /\ Num2(s, p) \in 1..31
            THEN <<[len |-> 2, val |-> Num2(s, p)]>> ELSE <<>>)
           \o (IF IsDigit(At(s, p)) /\ DigitVal(At(s, p)) \in 1..9
               THEN <<[len |-> 1, val |-> DigitVal(At(s, p))]>> ELSE <<>>)
           \o (IF At(s, p) = " " /\ IsDigit(At(s, p + 1)) /\ DigitVal(At(s, p + 1)) \in 1..9
               THEN <<[len |-> 2, val |-> DigitVal(At(s, p + 1))]>> ELSE <<>>)
      [] dir = "%m" ->
           (IF AllDigits(s, p, 2) /\ Num2(s, p) \in 1..12
            THEN <<[len |-> 2, val |-> Num2(s, p)]>> ELSE <<>>)
           \o (IF IsDigit(At(s, p)) /\ DigitVal(At(s, p)) \in 1..9
               THEN <<[len |-> 1, val |-> DigitVal(At(s, p))]>> ELSE <<>>)
      [] dir = "%Y" ->
           IF AllDigits(s, p, 4) THEN <<[len |-> 4, val |-> Num4(s, p)]>> ELSE <<>>
      [] dir = "%b" -> NameAlts(MonthAbbr, <<1, 2, 3, 4, 5, 6, 7, 8, 9, 10, 11, 12>>, 1, s, p)
      [] dir = "%B" -> NameAlts(MonthName, MonthNameOrder, 1, s, p)
      [] dir = " " ->
           LET n == WhitespaceRun(s, p)
           IN  [k \in 1..n |-> [len |-> n + 1 - k, val |-> 0]]
      [] OTHER ->
           IF At(s, p) = dir THEN <<[len |-> 1, val |-> 0]>> ELSE <<>>

\* the parse state after directive dir matched alternative alt
Advance(st, dir, alt) ==
    [pos |-> st.pos + alt.len,
     y   |-> IF dir = "%Y" THEN alt.val ELSE st.y,
     m   |-> IF dir \in {"%m", "%b", "%B"} THEN alt.val ELSE st.m,
     d   |-> IF dir = "%d" THEN alt.val ELSE st.d]

NoMatch == [pos |-> 0, y |-> 0, m |-> 0, d |-> 0]

RECURSIVE Match(_, _, _, _)
RECURSIVE FirstOk(_, _, _, _, _, _)
\* the regular expression's match of fmt[k..] against s from state st: the
\* first alternative, in priority order, that lets the rest of fmt match
Match(fmt, k, st, s) ==
    IF k > Len(fmt) THEN st
    ELSE FirstOk(Alts(fmt[k], s, st.pos), 1, fmt, k, st, s)

FirstOk(alts, j, fmt, k, st, s) ==
    IF j > Len(alts) THEN NoMatch
    ELSE LET r == Match(fmt, k + 1, Advance(st, fmt[k], alts[j]), s)
         IN  IF r # NoMatch THEN r ELSE FirstOk(alts, j + 1, fmt, k, st, s)

\* datetime.strptime(s, fmt): the date, or ValueError when the format does not
\* match, when unconverted data remains, or when the day is out of range
strptime(s, fmt) ==
    LET r == Match(fmt, 1, [pos |-> 1, y |-> 1900, m |-> 1, d |-> 1], s)
    IN  IF r = NoMatch THEN ValueError
        ELSE IF r.pos # Len(s) + 1 THEN ValueError
        ELSE IF ~ValidDate(r.y, r.m, r.d) THEN ValueError
        ELSE Date(r.y, r.m, r.d)

\* "%Y-%m-%d", lines 165-166
QueryFormat == <<"%Y", "-", "%m", "-", "%d">>

\* month_mappings, lines 63-66
month_mappings == << <<<<"S", "e", "p", "t">>, <<"S", "e", "p">>>> >>

\* formats, line 73
formats == << <<"%d", " ", "%b", " ", "%Y">>,
              <<"%d", " ", "%b", "%Y">>,
              <<"%d", " ", "%B", " ", "%Y">> >>

RECURSIVE Normalize(_, _)
\* lines 67-69: strip, then apply month_mappings[k..] in order
Normalize(s, k) ==
    IF k > Len(month_mappings) THEN s
    ELSE Normalize(Replace(s, month_mappings[k][1], month_mappings[k][2]), k + 1)

RECURSIVE TryFormats(_, _)
\* lines 74-78: the first format that parses
TryFormats(s, k) ==
    IF k > Len(formats) THEN NoDate
    ELSE LET r == strptime(s, formats[k])
         IN  IF r # ValueError THEN r ELSE TryFormats(s, k + 1)

\* parse_date, lines 57-80
parse_date(s) ==
    IF s = None \/ s = <<>> THEN NoDate
    ELSE TryFormats(Normalize(Strip(s), 1), 1)

---------------------------------------------------------------------------
(* Field parsing of get_trades *)

Democrat == <<"D", "e", "m", "o", "c", "r", "a", "t">>

Republican == <<"R", "e", "p", "u", "b", "l", "i", "c", "a", "n">>

Independent == <<"I", "n", "d", "e", "p", "e", "n", "d", "e", "n", "t">>

Senate == <<"S", "e", "n", "a", "t", "e">>

House == <<"H", "o", "u", "s", "e">>

Unknown == <<"U", "n", "k", "n", "o", "w", "n">>

\* parse_senator_info, lines 28-54
parse_senator_info(info) ==
    IF info = None \/ info = <<>>
    THEN Unknown \o <<",", " ">> \o Unknown \o <<",", " ">> \o Unknown
    ELSE LET s      == Strip(info)
             party  == IF Contains(s, Democrat) THEN Democrat
                       ELSE IF Contains(s, Republican) THEN Republican
                       ELSE IF Contains(s, Independent) THEN Independent
                       ELSE Unknown
             branch == IF Contains(s, Senate) THEN Senate
                       ELSE IF Contains(s, House) THEN House
                       ELSE Unknown
             state  == IF Len(s) >= 2 /\ IsUpper(s[Len(s) - 1]) /\ IsUpper(s[Len(s)])
                       THEN SubSeq(s, Len(s) - 1, Len(s))
                       ELSE Unknown
         IN  party \o <<",", " ">> \o branch \o <<",", " ">> \o state

RECURSIVE UpperRunBefore(_, _)
\* the number of consecutive upper-case letters of s that end at position p
UpperRunBefore(s, p) ==
    IF p >= 1 /\ IsUpper(s[p]) THEN 1 + UpperRunBefore(s, p - 1) ELSE 0

\* re.search(r'([A-Z]+:US)$', s), line 220: the matched text, <<>> for no match
\* (cell texts come out of clean_text, so no trailing newline meets the $)
ticker_match(s) ==
    LET suffix == <<":", "U", "S">>
        n      == UpperRunBefore(s, Len(s) - 3)
    IN  IF Len(s) >= 4 /\ SubSeq(s, Len(s) - 2, Len(s)) = suffix /\ n >= 1
        THEN SubSeq(s, Len(s) - 2 - n, Len(s))
        ELSE <<>>

\* is_valid_asset, lines 83-84
is_valid_asset(ticker, stock, option) == stock

\* cells[k], with Python's index from 0
Cell(cells, k) == cells[k + 1]

\* DateSkip without the comparison against the end of the range
DateSkip_LowerOnly(publish_date_dt, from_dt, to_dt) ==
    /\ publish_date_dt # NoDate
    /\ DateLess(publish_date_dt, from_dt)

\* line 236: the row is skipped by the date filter
DateSkip(publish_date_dt, from_dt, to_dt) ==
    /\ publish_date_dt # NoDate
    /\ DateLess(publish_date_dt, from_dt) \/ DateLess(to_dt, publish_date_dt)

Both == <<"b", "o", "t", "h">>

Buy == <<"b", "u", "y">>

Sell == <<"s", "e", "l", "l">>

\* TypeSkip with the "not" of "not in" left out
TypeSkip_Inverted(filter, tx_type) ==
    /\ filter # Both
    /\ tx_type # <<>>
    /\ Contains(Lower(tx_type), Lower(filter))

\* line 241: the row is skipped by the trade type filter
TypeSkip(filter, tx_type) ==
    /\ filter # Both
    /\ tx_type # <<>>
    /\ ~Contains(Lower(tx_type), Lower(filter))

\* TradeOf with the publish date read from the trade date's cell
TradeOf_TradeDateTwice(row_data) ==
    LET cells         == row_data.cell_contents
        issuer_ticker == Cell(cells, 1)
        ticker        == ticker_match(issuer_ticker)
    IN  [publish_date     |-> Cell(cells, 3),
         trade_date       |-> Cell(cells, 3),
         senator_name     |-> <<"N", "a", "n", "c", "y", " ", "P", "e", "l", "o", "s", "i">>,
         senator_info     |-> parse_senator_info(Cell(cells, 0)),
         type             |-> Cell(cells, 6),
         size             |-> Cell(cells, 7),
         issuer_trade     |-> IF ticker # <<>>
                              THEN Strip(Replace(issuer_ticker, ticker, <<>>))
                              ELSE issuer_ticker,
         ticker           |-> ticker,
         days_filed_after |-> Strip(Replace(Cell(cells, 4), <<"d", "a", "y", "s">>, <<>>)),
         owner            |-> Cell(cells, 5),
         price            |-> Cell(cells, 8),
         description      |-> row_data.description]

\* lines 216-229 and 251-264: the trade of a RawRow
TradeOf(row_data) ==
    LET cells         == row_data.cell_contents
        issuer_ticker == Cell(cells, 1)
        ticker        == ticker_match(issuer_ticker)
    IN  [publish_date     |-> Cell(cells, 2),
         trade_date       |-> Cell(cells, 3),
         senator_name     |-> <<"N", "a", "n", "c", "y", " ", "P", "e", "l", "o", "s", "i">>,
         senator_info     |-> parse_senator_info(Cell(cells, 0)),
         type             |-> Cell(cells, 6),
         size             |-> Cell(cells, 7),
         issuer_trade     |-> IF ticker # <<>>
                              THEN Strip(Replace(issuer_ticker, ticker, <<>>))
                              ELSE issuer_ticker,
         ticker           |-> ticker,
         days_filed_after |-> Strip(Replace(Cell(cells, 4), <<"d", "a", "y", "s">>, <<>>)),
         owner            |-> Cell(cells, 5),
         price            |-> Cell(cells, 8),
         description      |-> row_data.description]

\* lines 234-248: the row, whose publish date parsed to publish_date_dt,
\* passes the three filters
Kept(row_data, publish_date_dt, from_dt, to_dt, filter, stock, option) ==
    LET cells == row_data.cell_contents
    IN  /\ ~DateSkip(publish_date_dt, from_dt, to_dt)
        /\ ~TypeSkip(filter, Cell(cells, 6))
        /\ is_valid_asset(ticker_match(Cell(cells, 1)), stock, option)

\* the least number of cells of a row that is extracted, lines 109 and 211
MinCells == 10

\* timedelta(days=30), line 161
DefaultDays == 30

---------------------------------------------------------------------------
(* The page: a sequence of tables; a table has its rows inside a tbody or    *)
(* directly under it.  A row of the page is named by its kind; DomRow gives  *)
(* its td cells' texts and the tooltip that hovering its transaction cell    *)
(* shows (None: no tooltip element); the kind stands for the row's markup.   *)

\* the most rows on a page
MaxRows == 2

FullRow(publish, owner, tx, tooltip) ==
    [td |-> << <<"N", "a", "n", "c", "y", " ", "P", "e", "l", "o", "s", "i", "\n",
                 "D", "e", "m", "o", "c", "r", "a", "t", "H", "o", "u", "s", "e", "C", "A">>,
               <<"A", "c", "m", "e", " ", "I", "n", "c", "\n", "A", "V", "G", "O", ":", "U", "S">>,
               publish,
               <<"2", "0", " ", "J", "u", "n", "2", "0", "2", "5">>,
               <<"1", "9", "\n", "d", "a", "y", "s">>,
               owner,
               tx,
               <<"1", "M", "-", "5", "M">>,
               <<"$", "8", "0", ".", "0", "0">>,
               <<>> >>,
     tooltip |-> tooltip]

\* published inside the default range and inside July; a buy, with a tooltip
RowA == FullRow(<<"1", "0", " ", "J", "u", "l", "\n", "2", "0", "2", "5">>,
                <<"S", "p", "o", "u", "s", "e">>,
                <<"b", "u", "y">>,
                <<"B", "o", "u", "g", "h", "t", " ", " ", "5", "0", "\n", "c", "a", "l", "l", "s", " ">>)

\* published inside the default range, before July; a sale, no tooltip
RowB == FullRow(<<"2", "5", " ", "J", "u", "n", "2", "0", "2", "5">>,
                <<"S", "e", "l", "f">>,
                <<"S", "e", "l", "l">>,
                None)

\* a publish date that is no date, an empty transaction type
RowC == FullRow(<<"Y", "e", "s", "t", "e", "r", "d", "a", "y">>,
                <<"J", "o", "i", "n", "t">>,
                <<>>,
                None)

\* published after every range, in the "Sept" spelling; neither a buy nor a sale
RowD == FullRow(<<"1", "2", " ", "S", "e", "p", "t", "2", "0", "2", "5">>,
                <<"S", "e", "l", "f">>,
                <<"e", "x", "c", "h", "a", "n", "g", "e">>,
                None)

\* a row of nine cells
RowShort == [td |-> SubSeq(RowA.td, 1, 9), tooltip |-> None]

\* a header row: th cells only
RowHeader == [td |-> <<>>, tooltip |-> None]

RowKinds == {"A", "B", "C", "D", "short", "header"}

\* the DOM row of a kind
DomRow(kind) ==
    CASE kind = "A" -> RowA
      [] kind = "B" -> RowB
      [] kind = "C" -> RowC
      [] kind = "D" -> RowD
      [] kind = "short" -> RowShort
      [] kind = "header" -> RowHeader

RECURSIVE PagesUpTo(_)
\* the pages of at most n rows in all: a sequence of tables, each with at
\* least one row, inside a tbody or not
PagesUpTo(n) ==
    {<<>>} \cup
    UNION { { <<[tbody |-> b, rows |-> r]>> \o rest :
                b \in BOOLEAN, r \in [1..k -> RowKinds], rest \in PagesUpTo(n - k) } :
            k \in 1..n }

Pages == PagesUpTo(MaxRows)

RECURSIVE TbodyRows(_)
\* "tbody tr", lines 101 and 184: the rows inside a tbody, in document order
TbodyRows(tables) ==
    IF tables = <<>> THEN <<>>
    ELSE (IF Head(tables).tbody THEN Head(tables).rows ELSE <<>>) \o TbodyRows(Tail(tables))

\* line 190: the rows of a table that have a td
RowsWithCells(table) == SelectSeq(table.rows, LAMBDA kind : DomRow(kind).td # <<>>)

RECURSIVE FallbackRows(_)
\* lines 187-193: the td rows of the first table that has any
FallbackRows(tables) ==
    IF tables = <<>> THEN <<>>
    ELSE IF RowsWithCells(Head(tables)) # <<>> THEN RowsWithCells(Head(tables))
    ELSE FallbackRows(Tail(tables))

---------------------------------------------------------------------------
(* The requests *)

July1 == <<"2", "0", "2", "5", "-", "0", "7", "-", "0", "1">>

July31 == <<"2", "0", "2", "5", "-", "0", "7", "-", "3", "1">>

\* the date ranges that parse: the default range, July, and July reversed
GoodDates ==
    { [start_date |-> None, end_date |-> None],
      [start_date |-> July1, end_date |-> July31],
      [start_date |-> July31, end_date |-> July1] }

\* a start date in another format; an end date that is no day of the calendar
BadDates ==
    { [start_date |-> <<"0", "7", "/", "0", "1", "/", "2", "0", "2", "5">>,
       end_date   |-> <<>>],
      [start_date |-> <<>>,
       end_date   |-> <<"2", "0", "2", "5", "-", "0", "2", "-", "3", "0">>] }

Query(dates, tt, stock, option) ==
    [start_date |-> dates.start_date, end_date |-> dates.end_date, trade_type |-> tt,
     include_stock |-> stock, include_option |-> option]

\* the queries: every good date range with every trade type; the asset flags
\* away from their defaults; the bad dates; a trade type that is none of the three
Queries ==
    {Query(dates, tt, TRUE, TRUE) : dates \in GoodDates, tt \in {Buy, Sell, Both}}
    \cup {Query([start_date |-> None, end_date |-> None], Both, FALSE, TRUE),
          Query([start_date |-> July1, end_date |-> July31], Buy, TRUE, FALSE)}
    \cup {Query(dates, Both, TRUE, TRUE) : dates \in BadDates}
    \cup {Query([start_date |-> July1, end_date |-> July31], <<"B", "U", "Y">>, TRUE, TRUE)}

\* datetime.now(), lines 159 and 161
Clock == {Date(2025, 7, 20)}

NoExc == [type |-> "none", status_code |-> 0]

HTTPException(code) == [type |-> "HTTPException", status_code |-> code]

\* an exception of the render capability (playwright's Error, TimeoutError)
PlaywrightError == [type |-> "Error", status_code |-> 0]

NoResponse == [status_code |-> 0, body |-> [trades |-> <<>>]]

---------------------------------------------------------------------------
(* The /trades request, one step of get_trades or fetch_page_content at a    *)
(* time.  pc: "idle" (no request yet), "launch", "goto", "rows" (inside      *)
(* fetch_page_content), "exit" (leaving its async with block), "soup",       *)
(* "assemble" (back in get_trades), "except" (an exception reached line      *)
(* 283), "done" (the response left the handler).                             *)

Init ==
    /\ pc = "idle"
    /\ start_date = None
    /\ end_date = None
    /\ trade_type = Both
    /\ include_stock = TRUE
    /\ include_option = TRUE
    /\ start_date_dt = NoDate
    /\ end_date_dt = NoDate
    /\ playwright = "none"
    /\ browser = "none"
    /\ page = <<>>
    /\ i = 0
    /\ rows_data = <<>>
    /\ content = <<>>
    /\ trade_rows = <<>>
    /\ trades = <<>>
    /\ exc = NoExc
    /\ response = NoResponse
    /\ date_str = None
    /\ date_dt = NoDate

\* lines 149-177: the parameters arrive, the defaults are applied, the dates
\* are parsed and the trade type is validated
GetTrades ==
    /\ pc = "idle"
    /\ \E q \in Queries, now \in Clock :
         LET e   == IF q.end_date = None \/ q.end_date = <<>>
                    THEN strftime(now) ELSE q.end_date
             s   == IF q.start_date = None \/ q.start_date = <<>>
                    THEN strftime(MinusDays(now, DefaultDays)) ELSE q.start_date
             sdt == strptime(s, QueryFormat)
             edt == strptime(e, QueryFormat)
             bad_date == sdt = ValueError \/ edt = ValueError
             bad_type == q.trade_type \notin {Buy, Sell, Both}
         IN  /\ start_date' = s
             /\ end_date' = e
             /\ trade_type' = q.trade_type
             /\ include_stock' = q.include_stock
             /\ include_option' = q.include_option
             /\ start_date_dt' = IF sdt = ValueError THEN NoDate ELSE sdt
             /\ end_date_dt' = IF bad_date THEN NoDate ELSE edt
             /\ exc' = IF bad_date \/ bad_type THEN HTTPException(400) ELSE NoExc
             /\ pc' = IF bad_date \/ bad_type THEN "except" ELSE "launch"
    /\ UNCHANGED <<playwright, browser, page, i, rows_data, content, trade_rows,
                   trades, response, date_str, date_dt>>

\* lines 92-94: enter async_playwright(), launch chromium, open a page
Launch ==
    /\ pc = "launch"
    /\ \E outcome \in {"ok", "launch_error", "new_page_error"} :
         /\ playwright' = "running"
         /\ browser' = IF outcome = "launch_error" THEN "none" ELSE "open"
         /\ exc' = IF outcome = "ok" THEN NoExc ELSE PlaywrightError
         /\ pc' = IF outcome = "ok" THEN "goto" ELSE "exit"
    /\ UNCHANGED <<start_date, end_date, trade_type, include_stock, include_option,
                   start_date_dt, end_date_dt, page, i, rows_data, content,
                   trade_rows, trades, response, date_str, date_dt>>

\* lines 95-104: navigate, wait for the network to go idle, query "tbody tr"
Navigate ==
    /\ pc = "goto"
    /\ \/ \E p \in Pages :
            /\ page' = p
            /\ exc' = NoExc
            /\ pc' = "rows"
       \/ \E outcome \in {"goto_error", "load_timeout", "query_error"} :
            /\ page' = <<>>
            /\ exc' = PlaywrightError
            /\ pc' = "exit"
    /\ i' = 0
    /\ rows_data' = <<>>
    /\ UNCHANGED <<start_date, end_date, trade_type, include_stock, include_option,
                   start_date_dt, end_date_dt, playwright, browser, content,
                   trade_rows, trades, response, date_str, date_dt>>

\* TooShort with the threshold one too low
TooShort_Nine(cell_count) == cell_count < MinCells - 1

\* lines 109 and 211: the row has too few cells
TooShort(cell_count) == cell_count < MinCells

\* the outcomes of the awaits of lines 116-121, all caught at line 126
Caught == {"ok", "hover_error", "tooltip_error", "tooltip_text_error"}

\* the failures of the awaits of lines 107, 132 and 139, caught nowhere in
\* fetch_page_content
Uncaught == {"cells_error", "text_error", "html_error"}

\* lines 114-127: the description of a row; a failed hover, a failed tooltip
\* lookup or a failed read of the tooltip's text leaves ""
Description(row, outcome) ==
    IF outcome # "ok" THEN <<>>
    ELSE IF row.tooltip = None THEN <<>>
    ELSE clean_text(row.tooltip)

\* lines 129-140: the RawRow of a row of a kind
RawRow(kind, outcome) ==
    [cell_count    |-> Len(DomRow(kind).td),
     cell_contents |-> [k \in DOMAIN DomRow(kind).td |-> clean_text(DomRow(kind).td[k])],
     description   |-> Description(DomRow(kind), outcome),
     raw_html      |-> kind]

\* RawRow, evaluated once for each kind and outcome
RawRowOf == [kind \in RowKinds |-> [outcome \in Caught |-> RawRow(kind, outcome)]]

\* lines 105-140: one iteration of the row loop of fetch_page_content
ExtractRow ==
    /\ pc = "rows"
    /\ i < Len(TbodyRows(page))
    /\ LET kind == TbodyRows(page)[i + 1]
       IN  \E outcome \in Caught \cup Uncaught :
             IF outcome = "cells_error"
             THEN /\ exc' = PlaywrightError
                  /\ pc' = "exit"
                  /\ UNCHANGED <<i, rows_data>>
             ELSE IF TooShort(Len(DomRow(kind).td))
             THEN /\ i' = i + 1
                  /\ UNCHANGED <<rows_data, exc, pc>>
             ELSE IF outcome \in Uncaught
             THEN /\ exc' = PlaywrightError
                  /\ pc' = "exit"
                  /\ UNCHANGED <<i, rows_data>>
             ELSE /\ rows_data' = Append(rows_data, RawRowOf[kind][outcome])
                  /\ i' = i + 1
                  /\ UNCHANGED <<exc, pc>>
    /\ UNCHANGED <<start_date, end_date, trade_type, include_stock, include_option,
                   start_date_dt, end_date_dt, playwright, browser, page, content,
                   trade_rows, trades, response, date_str, date_dt>>

\* lines 142-143: read the markup, close the browser
ReadContent ==
    /\ pc = "rows"
    /\ i = Len(TbodyRows(page))
    /\ \/ /\ content' = page
          /\ browser' = "closed"
          /\ exc' = NoExc
       \/ /\ exc' = PlaywrightError
          /\ UNCHANGED <<content, browser>>
    /\ pc' = "exit"
    /\ UNCHANGED <<start_date, end_date, trade_type, include_stock, include_option,
                   start_date_dt, end_date_dt, playwright, page, i, rows_data,
                   trade_rows, trades, response, date_str, date_dt>>

\* AfterDriverStop for a driver that leaves its browsers running
AfterDriverStop_Leak(b) == b

\* line 92: what leaving the async with block does to a browser the driver
\* launched: stopping the driver ends every browser it still has open
AfterDriverStop(b) == IF b = "open" THEN "closed" ELSE b

\* line 92 (the exit of async with), then line 146 or the propagation of the
\* exception to line 283
PlaywrightExit ==
    /\ pc = "exit"
    /\ playwright' = "stopped"
    /\ browser' = AfterDriverStop(browser)
    /\ pc' = IF exc = NoExc THEN "soup" ELSE "except"
    /\ UNCHANGED <<start_date, end_date, trade_type, include_stock, include_option,
                   start_date_dt, end_date_dt, page, i, rows_data, content,
                   trade_rows, trades, exc, response, date_str, date_dt>>

\* lines 184-193: trade_rows
DiscoverRows(markup) ==
    IF TbodyRows(markup) # <<>> THEN TbodyRows(markup) ELSE FallbackRows(markup)

\* lines 183-202: parse the markup, fall back to all tables, return early
\* when no row is found
FallbackDiscovery ==
    /\ pc = "soup"
    /\ trade_rows' = DiscoverRows(content)
    /\ IF trade_rows' = <<>>
       THEN /\ response' = [status_code |-> 200,
                            body |-> [trades |-> <<>>, debug_info |-> TRUE]]
            /\ pc' = "done"
       ELSE /\ pc' = "assemble"
            /\ UNCHANGED response
    /\ i' = 0
    /\ trades' = <<>>
    /\ UNCHANGED <<start_date, end_date, trade_type, include_stock, include_option,
                   start_date_dt, end_date_dt, playwright, browser, page, rows_data,
                   content, exc, date_str, date_dt>>

\* lines 216-229 raise IndexError on a row of fewer than nine cells
IndexError(row_data) == Len(row_data.cell_contents) < 9

\* the publish texts of the rows of the pages
PublishTexts ==
    {clean_text(Cell(DomRow(kind).td, 2)) : kind \in {k \in RowKinds : Len(DomRow(k).td) > 2}}

\* parse_date, evaluated once for each publish text of the pages
ParsedText == [s \in PublishTexts |-> parse_date(s)]

\* parse_date(s), line 235
ParseDateOf(s) == IF s \in PublishTexts THEN ParsedText[s] ELSE parse_date(s)

\* lines 234-264: the trade of a RawRow that passes the filters, <<>> when it
\* is skipped
TradeIfKept(row_data, from_dt, to_dt, filter, stock, option) ==
    IF Kept(row_data, ParseDateOf(Cell(row_data.cell_contents, 2)), from_dt, to_dt,
            filter, stock, option)
    THEN <<TradeOf(row_data)>>
    ELSE <<>>

\* lines 203-268: one iteration of the row loop of get_trades; the IndexError
\* of a short cell list is caught at line 266 and the row is skipped
AssembleRow ==
    /\ pc = "assemble"
    /\ i < Len(rows_data)
    /\ LET row_data == rows_data[i + 1]
       IN  IF TooShort(row_data.cell_count) \/ IndexError(row_data)
           THEN UNCHANGED <<trades, date_str, date_dt>>
           ELSE /\ date_str' = Cell(row_data.cell_contents, 2)
                /\ date_dt' = ParseDateOf(Cell(row_data.cell_contents, 2))
                /\ trades' = trades \o TradeIfKept(row_data, start_date_dt, end_date_dt,
                                                   trade_type, include_stock, include_option)
    /\ i' = i + 1
    /\ UNCHANGED <<pc, start_date, end_date, trade_type, include_stock, include_option,
                   start_date_dt, end_date_dt, playwright, browser, page, rows_data,
                   content, trade_rows, exc, response>>

\* lines 270-281: the response
Respond ==
    /\ pc = "assemble"
    /\ i = Len(rows_data)
    /\ response' = [status_code |-> 200,
                    body |-> [trades      |-> trades,
                              total_count |-> Len(trades),
                              date_range  |-> start_date \o <<" ", "t", "o", " ">> \o end_date,
                              filters     |-> [trade_type     |-> trade_type,
                                               include_stock  |-> include_stock,
                                               include_option |-> include_option]]]
    /\ pc' = "done"
    /\ UNCHANGED <<start_date, end_date, trade_type, include_stock, include_option,
                   start_date_dt, end_date_dt, playwright, browser, page, i, rows_data,
                   content, trade_rows, trades, exc, date_str, date_dt>>

\* lines 283-285: except Exception catches whatever was raised inside the try,
\* the HTTPException of lines 169 and 173 included, and raises a 500
ExceptHandler ==
    /\ pc = "except"
    /\ exc' = HTTPException(500)
    /\ response' = [status_code |-> 500, body |-> [trades |-> <<>>]]
    /\ pc' = "done"
    /\ UNCHANGED <<start_date, end_date, trade_type, include_stock, include_option,
                   start_date_dt, end_date_dt, playwright, browser, page, i, rows_data,
                   content, trade_rows, trades, date_str, date_dt>>

Next ==
    \/ GetTrades
    \/ Launch
    \/ Navigate
    \/ ExtractRow
    \/ ReadContent
    \/ PlaywrightExit
    \/ FallbackDiscovery
    \/ AssembleRow
    \/ Respond
    \/ ExceptHandler

Spec == Init /\ [][Next]_vars

---------------------------------------------------------------------------
(* parse_date on its own: a call with a day, a month name and a year         *)

Years == {2024, 2025}

RECURSIVE Decimal(_)
\* the decimal digits of n > 0, without padding
Decimal(n) == IF n < 10 THEN <<Digits[n + 1]>> ELSE Decimal(n \div 10) \o <<Digits[(n % 10) + 1]>>

\* "D M Y": the day, a space, the full month name, a space, the year
DayMonthYear(d, m, y) == Decimal(d) \o <<" ">> \o MonthName[m] \o <<" ">> \o ZeroPad(y, 4)

\* the month as the pages write it: abbreviated, in full, or "Sept"
MonthTexts(m) ==
    {MonthAbbr[m], MonthName[m]} \cup (IF m = 9 THEN {<<"S", "e", "p", "t">>} ELSE {})

DateInputs ==
    { day \o <<" ">> \o month \o gap \o ZeroPad(y, 4) :
        day \in {Decimal(d) : d \in 1..31} \cup {ZeroPad(d, 2) : d \in 1..31},
        month \in UNION {MonthTexts(m) : m \in 1..12},
        gap \in {<<>>, <<" ">>},
        y \in Years }
    \cup {<<>>, <<"Y", "e", "s", "t", "e", "r", "d", "a", "y">>}

InitDate ==
    /\ pc = "parse_date"
    /\ date_str \in DateInputs
    /\ date_dt = NoDate
    /\ start_date = None
    /\ end_date = None
    /\ trade_type = Both
    /\ include_stock = TRUE
    /\ include_option = TRUE
    /\ start_date_dt = NoDate
    /\ end_date_dt = NoDate
    /\ playwright = "none"
    /\ browser = "none"
    /\ page = <<>>
    /\ i = 0
    /\ rows_data = <<>>
    /\ content = <<>>
    /\ trade_rows = <<>>
    /\ trades = <<>>
    /\ exc = NoExc
    /\ response = NoResponse

\* a call of parse_date, as at lines 235 and 342
ParseDate ==
    /\ pc = "parse_date"
    /\ date_dt' = parse_date(date_str)
    /\ pc' = "parsed"
    /\ UNCHANGED <<start_date, end_date, trade_type, include_stock, include_option,
                   start_date_dt, end_date_dt, playwright, browser, page, i, rows_data,
                   content, trade_rows, trades, exc, response, date_str>>

NextDate == ParseDate

SpecDate == InitDate /\ [][NextDate]_vars

---------------------------------------------------------------------------
(* The claims *)

\* the request ended with the full response of lines 271-281 or the early
\* one of lines 197-200
Answered == pc = "done" /\ response.status_code = 200

\* fetch_page_content has finished, by return or by exception
FetchFinished == playwright = "stopped"

\* the tbody row at position k has the ten cells a RawRow needs
Wide(k) == Len(DomRow(TbodyRows(page)[k]).td) >= MinCells

\* the publish date of the RawRow at position k, as parse_date reads it
PublishDate(k) == ParseDateOf(Cell(rows_data[k].cell_contents, 2))

\* the RawRow at position k passes the filters of the request
Survives(k) ==
    Kept(rows_data[k], PublishDate(k), start_date_dt, end_date_dt,
         trade_type, include_stock, include_option)

\* the query as the handler sees it after the defaults is not valid
InvalidQuery ==
    \/ strptime(start_date, QueryFormat) = ValueError
    \/ strptime(end_date, QueryFormat) = ValueError
    \/ trade_type \notin {Buy, Sell, Both}

\* C1: a query with a date that is no YYYY-MM-DD date, or a trade type that is
\* none of buy, sell, both, ends as a client error 400, and no page is acquired.
C1_InvalidQueryIs400 ==
    (pc = "done" /\ InvalidQuery) =>
        (response.status_code = 400 /\ playwright = "none")

C3_EveryTradeMatches ==
    (Answered /\ trade_type \in {Buy, Sell}) =>
        \A k \in DOMAIN response.body.trades :
            Contains(Lower(response.body.trades[k].type), trade_type)

\* C3, amended: under the filter "sell" or "buy" every returned trade with a
\* transaction type that is not empty has one that contains the filter's
\* word, whatever its case; a row with an empty transaction type is not
\* dropped by this filter: it is returned when it passes the other two.
C3_NonEmptyTypeMatches ==
    (Answered /\ trade_type \in {Buy, Sell}) =>
        /\ \A k \in DOMAIN response.body.trades :
             \/ response.body.trades[k].type = <<>>
             \/ Contains(Lower(response.body.trades[k].type), trade_type)
        /\ Cardinality({k \in DOMAIN response.body.trades :
                          response.body.trades[k].type = <<>>})
           = Cardinality({k \in DOMAIN rows_data :
                            /\ Cell(rows_data[k].cell_contents, 6) = <<>>
                            /\ ~DateSkip(PublishDate(k), start_date_dt, end_date_dt)
                            /\ is_valid_asset(<<>>, include_stock, include_option)})

\* C3 witness: under "sell", a "Sell" row is returned and a "buy" row is not.
C3_Witness ==
    /\ Answered
    /\ trade_type = Sell
    /\ \E k \in DOMAIN response.body.trades :
         response.body.trades[k].type = <<"S", "e", "l", "l">>
    /\ \E k \in DOMAIN rows_data :
         /\ Cell(rows_data[k].cell_contents, 6) = Buy
         /\ Survives(k) = FALSE
         /\ ~DateSkip(PublishDate(k), start_date_dt, end_date_dt)

\* C4: a row with fewer than ten cells never produces a trade: no RawRow is
\* built from one, there are at most as many trades as rows of ten cells or
\* more, and every trade is built from a RawRow of ten cells or more.
C4_ShortRowsNoTrade ==
    /\ \A k \in DOMAIN rows_data : rows_data[k].cell_count >= MinCells
    /\ Len(rows_data) <= Cardinality({k \in DOMAIN TbodyRows(page) : Wide(k)})
    /\ Len(trades) <= Cardinality({k \in DOMAIN TbodyRows(page) : Wide(k)})
    /\ \A t \in DOMAIN trades :
         \E k \in DOMAIN rows_data :
            /\ rows_data[k].cell_count >= MinCells
            /\ trades[t].publish_date = Cell(rows_data[k].cell_contents, 2)
            /\ trades[t].type = Cell(rows_data[k].cell_contents, 6)
            /\ trades[t].owner = Cell(rows_data[k].cell_contents, 5)
    /\ response.body.trades \in {<<>>, trades}

\* C4 witness: a page with a row of nine cells in its tbody was answered with
\* a trade of another row.
C4_Witness ==
    /\ Answered
    /\ response.body.trades # <<>>
    /\ \E k \in DOMAIN TbodyRows(page) : Len(DomRow(TbodyRows(page)[k]).td) = 9

\* C5: the returned trades are the RawRows that pass the filters, in page
\* order, one trade a row, and the publish date, trade date, owner, type,
\* size, price and description of a trade are cells 2, 3, 5, 6, 7, 8 and the
\* description of its row.
C5_OrderAndFields ==
    Answered =>
        LET out == response.body.trades
        IN  \E f \in [DOMAIN out -> DOMAIN rows_data] :
              /\ \A a, b \in DOMAIN out : a < b => f[a] < f[b]
              /\ {f[a] : a \in DOMAIN out} = {k \in DOMAIN rows_data : Survives(k)}
              /\ \A a \in DOMAIN out :
                   LET cells == rows_data[f[a]].cell_contents
                   IN  /\ out[a].publish_date = Cell(cells, 2)
                       /\ out[a].trade_date = Cell(cells, 3)
                       /\ out[a].owner = Cell(cells, 5)
                       /\ out[a].type = Cell(cells, 6)
                       /\ out[a].size = Cell(cells, 7)
                       /\ out[a].price = Cell(cells, 8)
                       /\ out[a].description = rows_data[f[a]].description

\* C5 witness: two different rows were returned, the first with a description
\* recovered from its tooltip.
C5_Witness ==
    /\ Answered
    /\ Len(response.body.trades) >= 2
    /\ response.body.trades[1].description # <<>>
    /\ response.body.trades[1].publish_date # response.body.trades[2].publish_date

C7_LaterRowsEmitted ==
    pc = "exit" =>
        ~\E k \in DOMAIN TbodyRows(page) : k > i + 1 /\ Wide(k)

\* C8: a query with well-formed dates and start_date after end_date is
\* rejected: it ends in an error, never in a successful response with a trade
\* list.
C8_ReversedRangeRejected ==
    (/\ pc = "done"
     /\ start_date_dt # NoDate
     /\ end_date_dt # NoDate
     /\ DateLess(end_date_dt, start_date_dt)) =>
        response.status_code # 200

\* C9: when no row is inside a tbody and the first table with td rows has a
\* row of ten cells or more that passes the filters, the trades of the
\* response are built from those rows: the trade list is not empty.
C9_FallbackRowsAssembled ==
    (/\ Answered
     /\ TbodyRows(content) = <<>>
     /\ \E k \in DOMAIN FallbackRows(content) :
          LET row_data == RawRowOf[FallbackRows(content)[k]]["ok"]
          IN  /\ ~TooShort(row_data.cell_count)
              /\ Kept(row_data, ParseDateOf(Cell(row_data.cell_contents, 2)),
                      start_date_dt, end_date_dt,
                      trade_type, include_stock, include_option)) =>
        response.body.trades # <<>>

\* C10: parse_date of "D M Y", M one of the twelve full month names and D a
\* day of that month, is the date (Y, M, D).
C10_FullMonthNames ==
    pc = "parsed" =>
        \A d \in 1..31, m \in 1..12, y \in Years :
            (date_str = DayMonthYear(d, m, y) /\ ValidDate(y, m, d)) =>
                date_dt = Date(y, m, d)

===========================================================================
